---- MODULE Spec2Model ----
(***************************************************************************)
(* Model of shelpers.py: the serial collector spickle_node_list and the    *)
(* parallel table writers pflatten_node_list / pflatten_node_list_list,    *)
(* run SPMD by mpi.procs ranks that meet at mpi.allreduce and mpi.barrier. *)
(***************************************************************************)
EXTENDS Integers, Sequences, FiniteSets, TLC

(* ------------------------------ bounds --------------------------------- *)
Procs == 2
MaxNodes == 3
MaxLists == 2
NumGhost == 1

Ranks == 0 .. (Procs - 1)

(* ------------------------- node lists and fields ----------------------- *)
\* A node is named by the position c of its node list in the argument, the
\* rank r that owns it and its local index i (0-based, as in range()).
Node(c, r, i) == <<c, r, i>>

\* The value a field holds for one node.
FieldValue(f, node) == <<f, node>>

\* field.internalValues(): the values of the locally-owned nodes (lines 73-78).
internalValues(f, c, r, n) == [i \in 1 .. n |-> FieldValue(f, Node(c, r, i - 1))]

\* sph.ScalarField(name, nl): a field over all nodes of the rank, the internal
\* nodes first and the ghost nodes after them (lines 81-86).
ScalarField(f, c, r, n) == [i \in 1 .. (n + NumGhost) |-> FieldValue(f, Node(c, r, i - 1))]

\* "{0:+12.5e}".format(v) and "{:2d}".format(v) (lines 224-233).
Format(spec, v) == <<spec, v>>

\* Vector3d components .x .y .z, and the half-axes of the smoothing tensor.
Component(v, a) == <<a, v>>
eigenValues(H) == <<"eigenValues", <<"Inverse", H>>>>
minElement(H) == <<"minElement", eigenValues(H)>>
maxElement(H) == <<"maxElement", eigenValues(H)>>

\* The column names of header_template (line 305).
Columns == <<"id", "x", "y", "z", "vx", "vy", "vz", "m", "rho", "p", "T", "U", "hmin", "hmax">>

\* header_template.format(nbGlobalNodes) (lines 296-322).
header_template(n) == [kind |-> "header", count |-> n, cols |-> Columns]

\* One line of a file that existed before the call.
OldLine == [kind |-> "old", count |-> 0, cols |-> <<>>]

\* Mutants of line: the first column is always the default identity; U, p and T
\* are written in the order in which spickle_node_list zips them.
lineDefaultId(nl_id, c, r, nk) ==
    [kind |-> "row", count |-> 0,
     cols |-> << Format("2d", 0),
                 Format("+12.5e", Component(FieldValue("x", Node(c, r, nk)), "x")),
                 Format("+12.5e", Component(FieldValue("x", Node(c, r, nk)), "y")),
                 Format("+12.5e", Component(FieldValue("x", Node(c, r, nk)), "z")),
                 Format("+12.5e", Component(FieldValue("v", Node(c, r, nk)), "x")),
                 Format("+12.5e", Component(FieldValue("v", Node(c, r, nk)), "y")),
                 Format("+12.5e", Component(FieldValue("v", Node(c, r, nk)), "z")),
                 Format("+12.5e", FieldValue("m", Node(c, r, nk))),
                 Format("+12.5e", FieldValue("rho", Node(c, r, nk))),
                 Format("+12.5e", FieldValue("p", Node(c, r, nk))),
                 Format("+12.5e", FieldValue("T", Node(c, r, nk))),
                 Format("+12.5e", FieldValue("U", Node(c, r, nk))),
                 Format("+12.5e", minElement(FieldValue("H", Node(c, r, nk)))),
                 Format("+12.5e", maxElement(FieldValue("H", Node(c, r, nk)))) >>]
lineZipOrder(nl_id, c, r, nk) ==
    [kind |-> "row", count |-> 0,
     cols |-> << Format("2d", nl_id),
                 Format("+12.5e", Component(FieldValue("x", Node(c, r, nk)), "x")),
                 Format("+12.5e", Component(FieldValue("x", Node(c, r, nk)), "y")),
                 Format("+12.5e", Component(FieldValue("x", Node(c, r, nk)), "z")),
                 Format("+12.5e", Component(FieldValue("v", Node(c, r, nk)), "x")),
                 Format("+12.5e", Component(FieldValue("v", Node(c, r, nk)), "y")),
                 Format("+12.5e", Component(FieldValue("v", Node(c, r, nk)), "z")),
                 Format("+12.5e", FieldValue("m", Node(c, r, nk))),
                 Format("+12.5e", FieldValue("rho", Node(c, r, nk))),
                 Format("+12.5e", FieldValue("U", Node(c, r, nk))),
                 Format("+12.5e", FieldValue("p", Node(c, r, nk))),
                 Format("+12.5e", FieldValue("T", Node(c, r, nk))),
                 Format("+12.5e", minElement(FieldValue("H", Node(c, r, nk)))),
                 Format("+12.5e", maxElement(FieldValue("H", Node(c, r, nk)))) >>]

\* The line written for local node nk (lines 224-234).
line(nl_id, c, r, nk) ==
    LET xloc == FieldValue("x", Node(c, r, nk))
        vloc == FieldValue("v", Node(c, r, nk))
        mloc == FieldValue("m", Node(c, r, nk))
        rloc == FieldValue("rho", Node(c, r, nk))
        uloc == FieldValue("U", Node(c, r, nk))
        ploc == FieldValue("p", Node(c, r, nk))
        Tloc == FieldValue("T", Node(c, r, nk))
        Hloc == FieldValue("H", Node(c, r, nk))
    IN  [kind |-> "row", count |-> 0,
         cols |-> << Format("2d", nl_id),
                     Format("+12.5e", Component(xloc, "x")),
                     Format("+12.5e", Component(xloc, "y")),
                     Format("+12.5e", Component(xloc, "z")),
                     Format("+12.5e", Component(vloc, "x")),
                     Format("+12.5e", Component(vloc, "y")),
                     Format("+12.5e", Component(vloc, "z")),
                     Format("+12.5e", mloc),
                     Format("+12.5e", rloc),
                     Format("+12.5e", ploc),
                     Format("+12.5e", Tloc),
                     Format("+12.5e", uloc),
                     Format("+12.5e", minElement(Hloc)),
                     Format("+12.5e", maxElement(Hloc)) >>]

(* ------------------------------- state --------------------------------- *)
VARIABLES
    args,           \* the arguments of the call, the same on every rank
    pc,             \* pc[r]: where rank r is
    k,              \* k[r]: index into nls (lines 274, 285)
    frame,          \* frame[r]: arguments of the running pflatten_node_list
    proc,           \* proc[r]: loop variable of line 220
    nk,             \* nk[r]: loop variable of line 223
    nbGlobalNodes,  \* nbGlobalNodes[r]
    globalFields,   \* globalFields[r] (line 96)
    nlFieldDict,    \* nlFieldDict[r] (line 99)
    fid,            \* fid[r]: the file object of rank r
    calls,          \* calls[r]: the collective operations rank r has entered
    file,           \* the lines of the text destination
    blob,           \* the content of the pickle destination
    opens,          \* opens[r]: how often rank r has opened the destination
    returned        \* returned[r]: the dictionaries returned to the caller on rank r

vars == <<args, pc, k, frame, proc, nk, nbGlobalNodes, globalFields,
          nlFieldDict, fid, calls, file, blob, opens, returned>>

locals == <<k, frame, proc, nk, nbGlobalNodes, globalFields, nlFieldDict>>

Closed == [mode |-> "closed", buf |-> <<>>, pos |-> 0]

\* dict(name=nl.name, x=[], ...) (lines 99-108).
EmptyDict == [name |-> "nl", x |-> <<>>, v |-> <<>>, m |-> <<>>, rho |-> <<>>,
              p |-> <<>>, h |-> <<>>, T |-> <<>>, U |-> <<>>]

\* nl.numInternalNodes of the node list at position c (1-based) on rank r.
numInternalNodes(c, r) == args.nls[c][r]

(* ------------------------------ arguments ------------------------------ *)
\* The sequences of n local node counts that add up to at most total.
RECURSIVE Counts(_, _)
Counts(n, total) ==
    IF n = 0 THEN {<<>>}
    ELSE UNION {{<<a>> \o s : s \in Counts(n - 1, total - a)} : a \in 0 .. total}

\* n node lists, each spread over the ranks, of at most MaxNodes nodes in all:
\* nls[c][r] is the number of internal nodes of node list c on rank r.
NlsOfLen(n) ==
    {[c \in 1 .. n |-> [r \in Ranks |-> f[(c - 1) * Procs + r + 1]]] :
        f \in Counts(n * Procs, MaxNodes)}

\* What the destination holds before the call: it exists and has one line.
OldFiles == {<<OldLine>>}

\* What an earlier pflatten_node_list(nl0, filename), with the default nl_id,
\* has left in the destination: the table of a node list nl0 (position 0) of
\* one node, owned by rank 0 (lines 157-164).
EarlierFile == <<header_template(1), line(0, 0, 0, 0)>>

\* The calls whose node lists are node lists.
NodeListArgs ==
    [func : {"pflatten_node_list"}, nls : NlsOfLen(1), filename : {"str", "int"},
     do_header : BOOLEAN, nl_id : 0 .. MaxLists, old : OldFiles \cup {EarlierFile}]
    \cup
    [func : {"pflatten_node_list_list"}, nls : UNION {NlsOfLen(n) : n \in 0 .. MaxLists},
     filename : {"str", "int"}, do_header : BOOLEAN, nl_id : {0}, old : OldFiles]
    \cup
    [func : {"spickle_node_list"}, nls : NlsOfLen(1), filename : {"None", "str", "int"},
     do_header : {TRUE}, nl_id : {0}, old : OldFiles]

\* What isinstance looks at (lines 63-65, 179-181, 266-269): the class of the
\* value passed as a node list.
NodeListTypes == {"FluidNodeList", "int"}

\* n values that have no nodes, as the ranks see them.
NoNodes(n) == [c \in 1 .. n |-> [r \in Ranks |-> 0]]

\* The calls in which a value passed as a node list is not one.
OtherArgs ==
    UNION {[func : {"pflatten_node_list_list"}, nls : {NoNodes(n)},
            types : [1 .. n -> NodeListTypes] \ {[c \in 1 .. n |-> "FluidNodeList"]},
            filename : {"str", "int"}, do_header : BOOLEAN, nl_id : {0},
            old : OldFiles] : n \in 1 .. MaxLists}
    \cup
    [func : {"pflatten_node_list", "spickle_node_list"}, nls : {NoNodes(1)},
     types : {<<"int">>}, filename : {"str", "int"}, do_header : BOOLEAN, nl_id : {0},
     old : OldFiles]

\* args.types[c] is the class of the value at position c (1-based) of nls.
ArgSets ==
    {[func |-> a.func, nls |-> a.nls,
      types |-> [c \in 1 .. Len(a.nls) |-> "FluidNodeList"],
      filename |-> a.filename, do_header |-> a.do_header, nl_id |-> a.nl_id,
      old |-> a.old] : a \in NodeListArgs}
    \cup OtherArgs

\* The state in which every rank is about to enter the function.
Init ==
    /\ args \in ArgSets
    /\ pc = [r \in Ranks |-> IF args.func = "pflatten_node_list" THEN "pnl_assert"
                             ELSE IF args.func = "pflatten_node_list_list" THEN "pnll_assert"
                             ELSE "sp_assert"]
    /\ k = [r \in Ranks |-> 0]
    /\ frame = [r \in Ranks |-> [nl |-> 1, do_header |-> args.do_header, nl_id |-> args.nl_id]]
    /\ proc = [r \in Ranks |-> 0]
    /\ nk = [r \in Ranks |-> 0]
    /\ nbGlobalNodes = [r \in Ranks |-> 0]
    /\ globalFields = [r \in Ranks |-> <<>>]
    /\ nlFieldDict = [r \in Ranks |-> EmptyDict]
    /\ fid = [r \in Ranks |-> Closed]
    /\ calls = [r \in Ranks |-> <<>>]
    /\ file = args.old
    /\ blob = args.old
    /\ opens = [r \in Ranks |-> 0]
    /\ returned = [r \in Ranks |-> <<>>]

(* ---------------------- the mpi module's collectives ------------------- *)
\* Rank r enters a collective operation and blocks in it.
Enter(r, op, val) == calls' = [calls EXCEPT ![r] = Append(@, [op |-> op, val |-> val])]

\* Where a rank is while it is blocked in a collective operation.
Blocked == {"pnl_allreduce", "pnl_barrier", "pnll_allreduce",
            "sp_allreduce_fields", "sp_allreduce_count"}

\* A collective operation completes once every rank of the group is in it.
Arrived ==
    /\ \A r \in Ranks : pc[r] \in Blocked
    /\ \A r, q \in Ranks : Len(calls[r]) = Len(calls[q])

RECURSIVE SumValues(_, _)
SumValues(n, q) == IF q < 0 THEN 0 ELSE SumValues(n, q - 1) + calls[q][n].val

\* Mutant of allreduce_SUM: the local value is not reduced.
allreduce_local(r) == calls[r][Len(calls[r])].val

\* The result of mpi.allreduce(value, mpi.SUM) on numbers.
allreduce_SUM(r) == SumValues(Len(calls[r]), Procs - 1)

RECURSIVE ConcatValues(_, _)
ConcatValues(n, q) == IF q < 0 THEN <<>> ELSE ConcatValues(n, q - 1) \o calls[q][n].val

RECURSIVE ConcatDescending(_, _)
ConcatDescending(n, q) ==
    IF q < 0 THEN <<>> ELSE calls[q][n].val \o ConcatDescending(n, q - 1)

\* Mutant of allreduce_SUM_list: the lists are joined in descending rank order.
allreduce_SUM_list_descending(r) == ConcatDescending(Len(calls[r]), Procs - 1)

\* The result of mpi.allreduce(list, mpi.SUM): + on lists is concatenation.
allreduce_SUM_list(r) == ConcatValues(Len(calls[r]), Procs - 1)

(* ------------------------------ file objects --------------------------- *)
\* The destination after the buffered lines of file object h have reached it:
\* at the end in append mode, at the object's own position otherwise.
Flushed(f, h) ==
    IF h.mode = "a" THEN f \o h.buf
    ELSE SubSeq(f, 1, IF h.pos < Len(f) THEN h.pos ELSE Len(f))
         \o h.buf \o SubSeq(f, h.pos + Len(h.buf) + 1, Len(f))

\* The destination after open(filename, mode): 'w' and 'wb' truncate it,
\* 'a' keeps its content.
Truncated(f, mode) == IF mode = "a" THEN f ELSE <<>>

\* The file object open(filename, mode) returns.
Opened(mode) == [mode |-> mode, buf |-> <<>>, pos |-> 0]

\* The file object after its buffer has been written out.
Emptied(h) == [h EXCEPT !.buf = <<>>, !.pos = @ + Len(h.buf)]

\* The buffer of an open file object reaches the destination at a moment the
\* program does not choose (at the latest in close()).
Flush(r) ==
    /\ fid[r].mode # "closed"
    /\ fid[r].buf # <<>>
    /\ IF args.func = "spickle_node_list"
       THEN blob' = Flushed(blob, fid[r]) /\ file' = file
       ELSE file' = Flushed(file, fid[r]) /\ blob' = blob
    /\ fid' = [fid EXCEPT ![r] = Emptied(@)]
    /\ UNCHANGED <<args, returned, pc, locals, calls, opens>>

(* ------------------- what a rank does after a collective --------------- *)
\* The local variables of rank r.
Local(r) == [pc |-> pc[r], k |-> k[r], frame |-> frame[r], proc |-> proc[r],
             nbGlobalNodes |-> nbGlobalNodes[r], globalFields |-> globalFields[r],
             nlFieldDict |-> nlFieldDict[r]]

\* Mutant of IsRankZero: the test of the rank is missing.
IsAnyRank(r) == TRUE

\* mpi.rank == 0 (lines 126, 192, 277).
IsRankZero(r) == r = 0

\* Mutants of MyTurn: the turns go in descending rank order; every rank takes
\* every turn.
MyTurnDescending(p, r) == p = Procs - 1 - r
MyTurnAlways(p, r) == TRUE

\* proc == mpi.rank (line 221).
MyTurn(p, r) == p = r

\* Mutant of ExecutesBarrier: a rank without nodes skips the barrier.
ExecutesBarrierIfNodes(r) == numInternalNodes(frame[r].nl, r) > 0

\* mpi.barrier() stands in the body of the for loop, outside the if, so every
\* rank executes it in every iteration (line 239).
ExecutesBarrier(r) == TRUE

\* Mutant of CallArgs: nl_id is left at its default.
CallArgsDefaultId(kk) == [nl |-> kk + 1, do_header |-> FALSE, nl_id |-> 0]

\* Mutants of CallArgs: every call writes a header of its own; the identities
\* are counted from 1.
CallArgsWithHeader(kk) == [nl |-> kk + 1, do_header |-> TRUE, nl_id |-> kk]
CallArgsOneBased(kk) == [nl |-> kk + 1, do_header |-> FALSE, nl_id |-> kk + 1]

\* The arguments of the call of line 286 for the node list at index kk.
CallArgs(kk) == [nl |-> kk + 1, do_header |-> FALSE, nl_id |-> kk]

\* The allreduce of line 190 returns; rank 0 goes on to write the header.
PnlReduceReturn(r) ==
    [Local(r) EXCEPT !.nbGlobalNodes = allreduce_SUM(r),
                     !.pc = IF IsRankZero(r) THEN "pnl_open_w" ELSE "pnl_loop",
                     !.proc = 0]

\* The end of one iteration of the loop of line 220: the next iteration or,
\* after the last one, the return, to line 285 when called from there
\* (lines 220, 240-245, 285).
PnlNextIteration(r) ==
    IF proc[r] + 1 < Procs
    THEN [Local(r) EXCEPT !.proc = @ + 1, !.pc = "pnl_loop"]
    ELSE IF args.func = "pflatten_node_list_list"
    THEN [Local(r) EXCEPT !.proc = @ + 1, !.k = @ + 1, !.pc = "pnll_calls"]
    ELSE [Local(r) EXCEPT !.proc = @ + 1, !.pc = "done"]

\* The allreduce of line 275 returns and is added to nbGlobalNodes.
PnllReduceReturn(r) ==
    [Local(r) EXCEPT !.nbGlobalNodes = @ + allreduce_SUM(r),
                     !.k = @ + 1,
                     !.pc = "pnll_header"]

Min(S) == CHOOSE m \in S : \A n \in S : m <= n

\* zip(...): tuples of the i-th elements, as many as the shortest argument has.
zip(seqs) ==
    [i \in 1 .. Min({Len(seqs[j]) : j \in 1 .. Len(seqs)}) |->
       [j \in 1 .. Len(seqs) |-> seqs[j][i]]]

\* localFields of rank r (lines 73-92).
localFields(r) ==
    LET n == numInternalNodes(1, r)
    IN  zip(<< internalValues("x", 1, r, n), internalValues("v", 1, r, n),
               internalValues("m", 1, r, n), internalValues("rho", 1, r, n),
               internalValues("U", 1, r, n), ScalarField("p", 1, r, n),
               ScalarField("T", 1, r, n), internalValues("H", 1, r, n) >>)

\* t[i] of a Python tuple.
Item(t, i) == t[i + 1]

\* (v.x, v.y, v.z)
xyz(v) == <<Component(v, "x"), Component(v, "y"), Component(v, "z")>>

\* Mutant of FillDict: U, p and T are unpacked in the order of the table's
\* columns (p, T, U) instead of the order in which they were zipped.
FillDictColumnOrder(gf, n) ==
    [name |-> "nl",
     x   |-> [i \in 1 .. n |-> xyz(Item(gf[i], 0))],
     v   |-> [i \in 1 .. n |-> xyz(Item(gf[i], 1))],
     m   |-> [i \in 1 .. n |-> Item(gf[i], 2)],
     rho |-> [i \in 1 .. n |-> Item(gf[i], 3)],
     p   |-> [i \in 1 .. n |-> Item(gf[i], 4)],
     T   |-> [i \in 1 .. n |-> Item(gf[i], 5)],
     U   |-> [i \in 1 .. n |-> Item(gf[i], 6)],
     h   |-> [i \in 1 .. n |-> xyz(eigenValues(Item(gf[i], 7)))]]

\* The dictionary filled from the first n records of gf (lines 99-123).
FillDict(gf, n) ==
    [name |-> "nl",
     x   |-> [i \in 1 .. n |-> xyz(Item(gf[i], 0))],
     v   |-> [i \in 1 .. n |-> xyz(Item(gf[i], 1))],
     m   |-> [i \in 1 .. n |-> Item(gf[i], 2)],
     rho |-> [i \in 1 .. n |-> Item(gf[i], 3)],
     U   |-> [i \in 1 .. n |-> Item(gf[i], 4)],
     p   |-> [i \in 1 .. n |-> Item(gf[i], 5)],
     T   |-> [i \in 1 .. n |-> Item(gf[i], 6)],
     h   |-> [i \in 1 .. n |-> xyz(eigenValues(Item(gf[i], 7)))]]

\* pickle.dump(d, fid) writes one pickle of d.
pickle_dump(d) == [kind |-> "pickle", dict |-> d]

\* Mutant of NewDict: the dictionary of the call before is used again.
KeptDict(r) == nlFieldDict[r]

\* nlFieldDict = dict(name=nl.name, x=[], ...): a new dictionary in every call
\* (lines 99-108).
NewDict(r) == EmptyDict

\* d after the lists of e have been appended to its lists (lines 113-123).
Extended(d, e) ==
    [name |-> d.name, x |-> d.x \o e.x, v |-> d.v \o e.v, m |-> d.m \o e.m,
     rho |-> d.rho \o e.rho, p |-> d.p \o e.p, h |-> d.h \o e.h,
     T |-> d.T \o e.T, U |-> d.U \o e.U]

\* The allreduce of line 96 returns the records of all ranks, and the
\* dictionary is created (lines 96-108).
SpFieldsReturn(r) ==
    [Local(r) EXCEPT !.globalFields = allreduce_SUM_list(r),
                     !.nlFieldDict = NewDict(r), !.pc = "sp_count"]

\* Mutant of SpCountReturn: only rank 0 fills the dictionary.
SpCountReturnRankZero(r) ==
    IF allreduce_SUM(r) > Len(globalFields[r])
    THEN [Local(r) EXCEPT !.nbGlobalNodes = allreduce_SUM(r), !.pc = "IndexError"]
    ELSE [Local(r) EXCEPT !.nbGlobalNodes = allreduce_SUM(r),
                          !.nlFieldDict = IF IsRankZero(r)
                                          THEN Extended(nlFieldDict[r],
                                                 FillDict(globalFields[r], allreduce_SUM(r)))
                                          ELSE nlFieldDict[r],
                          !.pc = IF IsRankZero(r) THEN "sp_pickle" ELSE "sp_return"]

\* The allreduce of line 111 returns and the loop fills the dictionary;
\* globalFields[k] of a k past the end raises IndexError (lines 111-126).
SpCountReturn(r) ==
    IF allreduce_SUM(r) > Len(globalFields[r])
    THEN [Local(r) EXCEPT !.nbGlobalNodes = allreduce_SUM(r), !.pc = "IndexError"]
    ELSE [Local(r) EXCEPT !.nbGlobalNodes = allreduce_SUM(r),
                          !.nlFieldDict = Extended(nlFieldDict[r],
                                             FillDict(globalFields[r], allreduce_SUM(r))),
                          !.pc = IF IsRankZero(r) THEN "sp_pickle" ELSE "sp_return"]

\* What rank r does when the collective it is blocked in returns.
Resume(r) ==
    CASE pc[r] = "pnl_allreduce" -> PnlReduceReturn(r)
      [] pc[r] = "pnl_barrier" -> PnlNextIteration(r)
      [] pc[r] = "pnll_allreduce" -> PnllReduceReturn(r)
      [] pc[r] = "sp_allreduce_fields" -> SpFieldsReturn(r)
      [] pc[r] = "sp_allreduce_count" -> SpCountReturn(r)
      [] OTHER -> Local(r)

\* The local variables of the ranks become those of l.
Becomes(l) ==
    /\ pc' = [r \in Ranks |-> l[r].pc]
    /\ k' = [r \in Ranks |-> l[r].k]
    /\ frame' = [r \in Ranks |-> l[r].frame]
    /\ proc' = [r \in Ranks |-> l[r].proc]
    /\ nbGlobalNodes' = [r \in Ranks |-> l[r].nbGlobalNodes]
    /\ globalFields' = [r \in Ranks |-> l[r].globalFields]
    /\ nlFieldDict' = [r \in Ranks |-> l[r].nlFieldDict]

\* The collective operation every rank is blocked in completes: mpi.allreduce
\* and mpi.barrier return on every rank of the group.
Complete ==
    /\ Arrived
    /\ Becomes([r \in Ranks |-> Resume(r)])
    /\ UNCHANGED <<args, returned, nk, fid, calls, file, blob, opens>>

(* --------------------------- pflatten_node_list ------------------------ *)
\* Mutant of ValidNodeLists: the class of the node lists is not looked at.
AnyNodeLists == TRUE

\* isinstance(nl, (FluidNodeList, ...)) of every node list passed (lines 63-65,
\* 179-181, 266-269).
ValidNodeLists == \A c \in 1 .. Len(args.types) : args.types[c] = "FluidNodeList"

\* Mutant of FilenameIsStr: the class of filename is not looked at.
FilenameIsAny == TRUE

\* isinstance(filename, str) (lines 128, 182, 263).
FilenameIsStr == args.filename = "str"

\* The assertions at the head of the function: on the node lists in all
\* three, on filename in the pflatten functions only; silent, do_header and
\* nl_id are valid (lines 63-66, 179-186, 262-269).
Asserts(r) ==
    /\ pc[r] \in {"pnl_assert", "pnll_assert", "sp_assert"}
    /\ pc' = [pc EXCEPT ![r] =
                IF ~ValidNodeLists THEN "AssertionError"
                ELSE IF @ = "sp_assert" THEN "sp_zip"
                ELSE IF ~FilenameIsStr THEN "AssertionError"
                ELSE IF @ = "pnl_assert" THEN "pnl_header"
                ELSE "pnll_header"]
    /\ UNCHANGED <<args, returned, locals, fid, calls, file, blob, opens>>

\* nbGlobalNodes = mpi.allreduce(nl.numInternalNodes, mpi.SUM): entry (line 190).
PnlReduceEnter(r) ==
    /\ pc[r] = "pnl_header"
    /\ frame[r].do_header
    /\ Enter(r, "allreduce", numInternalNodes(frame[r].nl, r))
    /\ pc' = [pc EXCEPT ![r] = "pnl_allreduce"]
    /\ UNCHANGED <<args, returned, locals, fid, file, blob, opens>>

\* do_header is false: straight to the loop (line 189).
PnlNoHeader(r) ==
    /\ pc[r] = "pnl_header"
    /\ ~frame[r].do_header
    /\ pc' = [pc EXCEPT ![r] = "pnl_loop"]
    /\ proc' = [proc EXCEPT ![r] = 0]
    /\ UNCHANGED <<args, returned, k, frame, nk, nbGlobalNodes, globalFields, nlFieldDict,
                   fid, calls, file, blob, opens>>

\* Mutant of HeaderMode: the header is appended.
HeaderModeAppend == "a"

\* The mode in which the header is written (lines 193, 278).
HeaderMode == "w"

\* fid = open(filename,'w') (lines 193, 278).
OpenW(r) ==
    /\ pc[r] \in {"pnl_open_w", "pnll_open_w"}
    /\ file' = Truncated(file, HeaderMode)
    /\ fid' = [fid EXCEPT ![r] = Opened(HeaderMode)]
    /\ opens' = [opens EXCEPT ![r] = @ + 1]
    /\ pc' = [pc EXCEPT ![r] = IF @ = "pnl_open_w" THEN "pnl_write_header"
                               ELSE "pnll_write_header"]
    /\ UNCHANGED <<args, returned, locals, calls, blob>>

\* fid.write(header) (lines 191, 194, 276, 279).
WriteHeader(r) ==
    /\ pc[r] \in {"pnl_write_header", "pnll_write_header"}
    /\ fid' = [fid EXCEPT ![r].buf = Append(@, header_template(nbGlobalNodes[r]))]
    /\ pc' = [pc EXCEPT ![r] = IF @ = "pnl_write_header" THEN "pnl_close_w"
                               ELSE "pnll_close_w"]
    /\ UNCHANGED <<args, returned, locals, calls, file, blob, opens>>

\* fid.close() after the header (lines 195, 280).
CloseW(r) ==
    /\ pc[r] \in {"pnl_close_w", "pnll_close_w"}
    /\ file' = Flushed(file, fid[r])
    /\ fid' = [fid EXCEPT ![r] = Closed]
    /\ pc' = [pc EXCEPT ![r] = IF @ = "pnl_close_w" THEN "pnl_loop" ELSE "pnll_calls"]
    /\ UNCHANGED <<args, returned, locals, calls, blob, opens>>

\* Mutant of AppendMode: the rank opens the file for writing.
AppendModeWrite == "w"

\* The mode in which a rank opens the file for its rows (line 222).
AppendMode == "a"

\* It is this rank's turn: fid = open(filename,'a') (lines 220-222).
PnlOpenA(r) ==
    /\ pc[r] = "pnl_loop"
    /\ MyTurn(proc[r], r)
    /\ file' = Truncated(file, AppendMode)
    /\ fid' = [fid EXCEPT ![r] = Opened(AppendMode)]
    /\ opens' = [opens EXCEPT ![r] = @ + 1]
    /\ nk' = [nk EXCEPT ![r] = 0]
    /\ pc' = [pc EXCEPT ![r] = "pnl_rows"]
    /\ UNCHANGED <<args, returned, k, frame, proc, nbGlobalNodes, globalFields, nlFieldDict,
                   calls, blob>>

\* fid.write(line) for local node nk (lines 223-236).
PnlWriteRow(r) ==
    /\ pc[r] = "pnl_rows"
    /\ nk[r] < numInternalNodes(frame[r].nl, r)
    /\ fid' = [fid EXCEPT ![r].buf =
                 Append(@, line(frame[r].nl_id, frame[r].nl, r, nk[r]))]
    /\ nk' = [nk EXCEPT ![r] = @ + 1]
    /\ UNCHANGED <<args, returned, pc, k, frame, proc, nbGlobalNodes, globalFields,
                   nlFieldDict, calls, file, blob, opens>>

\* fid.close() after the last node (line 237).
PnlCloseA(r) ==
    /\ pc[r] = "pnl_rows"
    /\ nk[r] >= numInternalNodes(frame[r].nl, r)
    /\ file' = Flushed(file, fid[r])
    /\ fid' = [fid EXCEPT ![r] = Closed]
    /\ pc' = [pc EXCEPT ![r] = "pnl_endif"]
    /\ UNCHANGED <<args, returned, locals, calls, blob, opens>>

\* mpi.barrier(): entry, after the rank's own turn or, when it is another
\* rank's turn, right after the test of line 221 (lines 221, 239).
PnlBarrierEnter(r) ==
    /\ \/ pc[r] = "pnl_endif"
       \/ pc[r] = "pnl_loop" /\ ~MyTurn(proc[r], r)
    /\ IF ExecutesBarrier(r)
       THEN /\ Enter(r, "barrier", 0)
            /\ pc' = [pc EXCEPT ![r] = "pnl_barrier"]
            /\ UNCHANGED <<k, proc>>
       ELSE /\ calls' = calls
            /\ pc' = [pc EXCEPT ![r] = PnlNextIteration(r).pc]
            /\ proc' = [proc EXCEPT ![r] = PnlNextIteration(r).proc]
            /\ k' = [k EXCEPT ![r] = PnlNextIteration(r).k]
    /\ UNCHANGED <<args, returned, frame, nk, nbGlobalNodes, globalFields, nlFieldDict,
                   fid, file, blob, opens>>

(* ------------------------- pflatten_node_list_list --------------------- *)
\* nbGlobalNodes += mpi.allreduce(nl.numInternalNodes, mpi.SUM): entry (line 275).
PnllReduceEnter(r) ==
    /\ pc[r] = "pnll_header"
    /\ args.do_header
    /\ k[r] < Len(args.nls)
    /\ Enter(r, "allreduce", numInternalNodes(k[r] + 1, r))
    /\ pc' = [pc EXCEPT ![r] = "pnll_allreduce"]
    /\ UNCHANGED <<args, returned, locals, fid, file, blob, opens>>

\* No header, or the count is complete: rank 0 writes it (lines 272, 276-277).
PnllHeaderEnd(r) ==
    /\ pc[r] = "pnll_header"
    /\ ~args.do_header \/ k[r] >= Len(args.nls)
    /\ pc' = [pc EXCEPT ![r] = IF args.do_header /\ IsRankZero(r)
                               THEN "pnll_open_w" ELSE "pnll_calls"]
    /\ k' = [k EXCEPT ![r] = 0]
    /\ UNCHANGED <<args, returned, frame, proc, nk, nbGlobalNodes, globalFields, nlFieldDict,
                   fid, calls, file, blob, opens>>

\* pflatten_node_list(nls[k],filename,do_header=False,nl_id=k,...): the call,
\* its assertions, which the checked arguments pass, and the test of do_header
\* (lines 285-286, 179-189).
PnllCall(r) ==
    /\ pc[r] = "pnll_calls"
    /\ k[r] < Len(args.nls)
    /\ frame' = [frame EXCEPT ![r] = CallArgs(k[r])]
    /\ pc' = [pc EXCEPT ![r] = IF CallArgs(k[r]).do_header THEN "pnl_header" ELSE "pnl_loop"]
    /\ proc' = [proc EXCEPT ![r] = 0]
    /\ UNCHANGED <<args, returned, k, nk, nbGlobalNodes, globalFields, nlFieldDict,
                   fid, calls, file, blob, opens>>

\* Every node list has been flattened: return (lines 285, 289-292).
PnllReturn(r) ==
    /\ pc[r] = "pnll_calls"
    /\ k[r] >= Len(args.nls)
    /\ pc' = [pc EXCEPT ![r] = "done"]
    /\ UNCHANGED <<args, returned, locals, fid, calls, file, blob, opens>>

(* ---------------------------- spickle_node_list ------------------------ *)
\* globalFields = mpi.allreduce(localFields, mpi.SUM): entry (lines 92-96).
SpFieldsEnter(r) ==
    /\ pc[r] = "sp_zip"
    /\ Enter(r, "allreduce", localFields(r))
    /\ pc' = [pc EXCEPT ![r] = "sp_allreduce_fields"]
    /\ UNCHANGED <<args, returned, locals, fid, file, blob, opens>>

\* nbGlobalNodes = mpi.allreduce(nl.numInternalNodes, mpi.SUM): entry (line 111).
SpCountEnter(r) ==
    /\ pc[r] = "sp_count"
    /\ Enter(r, "allreduce", numInternalNodes(1, r))
    /\ pc' = [pc EXCEPT ![r] = "sp_allreduce_count"]
    /\ UNCHANGED <<args, returned, locals, fid, file, blob, opens>>

\* On rank 0: no filename, or one that is not a string (message on stderr):
\* return without writing (lines 127-128, 133-137, 144).
SpNoPickle(r) ==
    /\ pc[r] = "sp_pickle"
    /\ args.filename = "None" \/ ~FilenameIsStr
    /\ pc' = [pc EXCEPT ![r] = "sp_return"]
    /\ UNCHANGED <<args, returned, locals, fid, calls, file, blob, opens>>

\* Mutant of PickleMode: the file is opened for appending.
PickleModeAppend == "a"

\* The mode in which rank 0 opens the file for the pickle (line 129).
PickleMode == "wb"

\* open(filename, 'wb') (lines 127-129).
SpOpen(r) ==
    /\ pc[r] = "sp_pickle"
    /\ args.filename # "None" /\ FilenameIsStr
    /\ blob' = Truncated(blob, PickleMode)
    /\ fid' = [fid EXCEPT ![r] = Opened(PickleMode)]
    /\ opens' = [opens EXCEPT ![r] = @ + 1]
    /\ pc' = [pc EXCEPT ![r] = "sp_dump"]
    /\ UNCHANGED <<args, returned, locals, calls, file>>

\* pickle.dump(nlFieldDict, fid) (line 130).
SpDump(r) ==
    /\ pc[r] = "sp_dump"
    /\ fid' = [fid EXCEPT ![r].buf = Append(@, pickle_dump(nlFieldDict[r]))]
    /\ pc' = [pc EXCEPT ![r] = "sp_close"]
    /\ UNCHANGED <<args, returned, locals, calls, file, blob, opens>>

\* Leaving the with block closes the file (lines 129-132).
SpClose(r) ==
    /\ pc[r] = "sp_close"
    /\ blob' = Flushed(blob, fid[r])
    /\ fid' = [fid EXCEPT ![r] = Closed]
    /\ pc' = [pc EXCEPT ![r] = "sp_return"]
    /\ UNCHANGED <<args, returned, locals, calls, file, opens>>

\* return nlFieldDict, on every rank (lines 141-144).
SpReturn(r) ==
    /\ pc[r] = "sp_return"
    /\ returned' = [returned EXCEPT ![r] = Append(@, nlFieldDict[r])]
    /\ pc' = [pc EXCEPT ![r] = "done"]
    /\ UNCHANGED <<args, locals, fid, calls, file, blob, opens>>

(* ---------------------------- specification ---------------------------- *)
Step(r) ==
    \/ Flush(r)
    \/ Asserts(r)
    \/ PnlReduceEnter(r)
    \/ PnlNoHeader(r)
    \/ OpenW(r)
    \/ WriteHeader(r)
    \/ CloseW(r)
    \/ PnlOpenA(r)
    \/ PnlWriteRow(r)
    \/ PnlCloseA(r)
    \/ PnlBarrierEnter(r)
    \/ PnllReduceEnter(r)
    \/ PnllHeaderEnd(r)
    \/ PnllCall(r)
    \/ PnllReturn(r)
    \/ SpFieldsEnter(r)
    \/ SpCountEnter(r)
    \/ SpNoPickle(r)
    \/ SpOpen(r)
    \/ SpDump(r)
    \/ SpClose(r)
    \/ SpReturn(r)

Next == Complete \/ \E r \in Ranks : Step(r)

Spec == Init /\ [][Next]_vars

\* Every rank is a running process and the mpi library completes a collective
\* operation all ranks are in: as long as a step is possible, one is taken.
SpecFair == Spec /\ WF_vars(Next)

(* ------------------------- IOError on one rank ------------------------- *)
\* open(), fid.write() or fid.close() raises IOError on rank r: nothing in
\* these functions catches it, so the rank leaves the function with its file
\* object dropped, the buffered lines written out or lost (lines 193-195,
\* 222-237, 278-280).
IOFail(r) ==
    /\ \/ pc[r] \in {"pnl_open_w", "pnll_open_w", "pnl_write_header",
                     "pnll_write_header", "pnl_close_w", "pnll_close_w", "pnl_rows"}
       \/ pc[r] = "pnl_loop" /\ MyTurn(proc[r], r)
    /\ pc' = [pc EXCEPT ![r] = "IOError"]
    /\ fid' = [fid EXCEPT ![r] = Closed]
    /\ file' \in {file, Flushed(file, fid[r])}
    /\ UNCHANGED <<args, returned, locals, calls, blob, opens>>

NextIO == Next \/ \E r \in Ranks : IOFail(r)

SpecIO == Init /\ [][NextIO]_vars

(* ------------------------ the same call once more ---------------------- *)
\* How often spickle_node_list is called.
MaxCalls == 2

\* The caller calls spickle_node_list again, with the same node list, whose
\* fields have not changed, and the same filename (lines 42, 144).
CallAgain(r) ==
    /\ args.func = "spickle_node_list"
    /\ pc[r] = "done"
    /\ Len(returned[r]) < MaxCalls
    /\ pc' = [pc EXCEPT ![r] = "sp_assert"]
    /\ UNCHANGED <<args, returned, locals, fid, calls, file, blob, opens>>

NextTwice == Next \/ \E r \in Ranks : CallAgain(r)

SpecTwice == Init /\ [][NextTwice]_vars

(* =============================== claims ================================ *)
pflatten == {"pflatten_node_list", "pflatten_node_list_list"}

AllDone == \A r \in Ranks : pc[r] = "done"

IsRow(l) == l.kind = "row"
Rows(f) == SelectSeq(f, IsRow)

\* The lines of the file that come after those it held before the call (all
\* of them when the call wrote a header and so began a new file).
Written ==
    IF args.do_header \/ Len(file) < Len(args.old) THEN file
    ELSE SubSeq(file, Len(args.old) + 1, Len(file))

\* The node a data row describes: its list, its owning rank, its local index.
NodeOf(l) == l.cols[8][2][2]
ListOf(l) == NodeOf(l)[1]
RankOf(l) == NodeOf(l)[2]
IndexOf(l) == NodeOf(l)[3]

RECURSIVE SumCounts(_, _)
SumCounts(c, r) == IF r < 0 THEN 0 ELSE SumCounts(c, r - 1) + numInternalNodes(c, r)

\* The number of nodes of node list c on all ranks.
GlobalCount(c) == SumCounts(c, Procs - 1)

RECURSIVE TotalCount(_)
TotalCount(c) == IF c = 0 THEN 0 ELSE TotalCount(c - 1) + GlobalCount(c)

\* The rows of node list c with identity id: rank after rank, each rank's
\* nodes in local order.
RECURSIVE RowsUpTo(_, _, _)
RowsUpTo(id, c, r) ==
    IF r < 0 THEN <<>>
    ELSE RowsUpTo(id, c, r - 1)
         \o [i \in 1 .. numInternalNodes(c, r) |-> line(id, c, r, i - 1)]

\* C1: in pflatten_node_list the rows of the ranks reach the file in ascending
\* rank order, the rows of one rank in its local node order, in every state of
\* every interleaving; when all ranks have returned the rows are exactly the
\* ranks' rows in that order.
C1_AscendingRankOrder ==
    args.func \in pflatten =>
      /\ \A i, j \in 1 .. Len(file) :
           (i < j /\ IsRow(file[i]) /\ IsRow(file[j]) /\ ListOf(file[i]) = ListOf(file[j]))
             => \/ RankOf(file[i]) < RankOf(file[j])
                \/ RankOf(file[i]) = RankOf(file[j]) /\ IndexOf(file[i]) < IndexOf(file[j])
      /\ (args.func = "pflatten_node_list" /\ AllDone)
           => Rows(Written) = RowsUpTo(args.nl_id, 1, Procs - 1)

C1_Witness ==
    /\ args.func = "pflatten_node_list"
    /\ AllDone
    /\ numInternalNodes(1, 0) = 2
    /\ numInternalNodes(1, 1) = 1
    /\ Len(Rows(file)) = 3

\* C2: during pflatten_node_list and pflatten_node_list_list at most one rank
\* has the destination open, in every reachable state.
C2_SingleWriter ==
    args.func \in pflatten => Cardinality({r \in Ranks : fid[r].mode # "closed"}) <= 1

C2_Witness ==
    /\ args.func = "pflatten_node_list_list"
    /\ args.do_header
    /\ fid[1].mode = "a"
    /\ frame[1].nl = 2
    /\ fid[1].buf # <<>>
    /\ Len(Rows(file)) > 0

\* C3: with do_header the file holds, once all ranks have returned, the header
\* exactly once and as its first line, nothing of its old content, and rows
\* after it; and in no state is a row of the call in a file that does not start
\* with the header.
C3_HeaderFirstOnce ==
    (args.func \in pflatten /\ args.do_header) =>
      /\ (\E i \in 1 .. Len(file) : IsRow(file[i]))
           => /\ file[1].kind = "header"
              /\ \A j \in 2 .. Len(file) : IsRow(file[j])
      /\ AllDone
           => /\ Len(file) >= 1
              /\ file[1].kind = "header"
              /\ \A j \in 2 .. Len(file) : IsRow(file[j])

C3_Witness ==
    /\ args.func \in pflatten
    /\ args.do_header
    /\ AllDone
    /\ args.old # <<>>
    /\ Len(file) >= 3

\* C4: pflatten_node_list with do_header: the header states the sum of the
\* ranks' local counts and the file holds that many rows.
C4_HeaderCount ==
    (args.func = "pflatten_node_list" /\ args.do_header /\ AllDone) =>
      /\ file[1].kind = "header"
      /\ file[1].count = GlobalCount(1)
      /\ Len(Rows(file)) = GlobalCount(1)
      /\ Len(file) = 1 + GlobalCount(1)

C4_Witness ==
    /\ args.func = "pflatten_node_list"
    /\ args.do_header
    /\ AllDone
    /\ numInternalNodes(1, 0) = 1
    /\ numInternalNodes(1, 1) = 2
    /\ file[1].count = 3

\* The rows of node list c written by the ranks that own nodes, in rank order.
RECURSIVE RowsOfOwners(_, _, _)
RowsOfOwners(id, c, r) ==
    IF r < 0 THEN <<>>
    ELSE IF numInternalNodes(c, r) = 0 THEN RowsOfOwners(id, c, r - 1)
    ELSE RowsOfOwners(id, c, r - 1)
         \o [i \in 1 .. numInternalNodes(c, r) |-> line(id, c, r, i - 1)]

IsBarrier(e) == e.op = "barrier"
IsAllreduce(e) == e.op = "allreduce"

Terminal == {"done", "AssertionError", "IndexError", "IOError"}

\* C5: in pflatten_node_list a rank without nodes writes no row and still
\* enters every barrier (and the allreduce of the header); the rows in the file
\* are those of the other ranks, in their order, and no rank is left blocked:
\* as long as a rank has not returned, a step is possible.
C5_EmptyRanks ==
    args.func = "pflatten_node_list" =>
      /\ (\E r \in Ranks : pc[r] \notin Terminal) => ENABLED Next
      /\ AllDone =>
           /\ Rows(Written) = RowsOfOwners(args.nl_id, 1, Procs - 1)
           /\ \A r \in Ranks :
                numInternalNodes(1, r) = 0 =>
                  /\ Len(SelectSeq(calls[r], IsBarrier)) = Procs
                  /\ Len(SelectSeq(calls[r], IsAllreduce)) = IF args.do_header THEN 1 ELSE 0
                  /\ \A i \in 1 .. Len(Written) : IsRow(Written[i]) => RankOf(Written[i]) # r

C5_Witness ==
    /\ args.func = "pflatten_node_list"
    /\ args.do_header
    /\ AllDone
    /\ numInternalNodes(1, 0) = 0
    /\ numInternalNodes(1, 1) = 2
    /\ Len(Rows(file)) = 2

\* C6: when a rank has failed with IOError in pflatten_node_list and no step
\* is possible any more, no rank is blocked in a barrier.
C6_NoRankBlockedForever ==
    (/\ args.func = "pflatten_node_list"
     /\ \E r \in Ranks : pc[r] = "IOError"
     /\ ~ENABLED NextIO)
      => \A q \in Ranks : pc[q] \notin Blocked

\* The dictionary of rank r has been filled.
Filled(r) ==
    /\ args.func = "spickle_node_list"
    /\ pc[r] \in {"sp_pickle", "sp_dump", "sp_close", "sp_return", "done"}

RECURSIVE LocalsUpTo(_)
LocalsUpTo(r) == IF r < 0 THEN <<>> ELSE LocalsUpTo(r - 1) \o localFields(r)

FieldKeys == {"x", "v", "m", "rho", "U", "p", "T", "h"}

\* C7: the records spickle_node_list gets from the allreduce are the local
\* records of the ranks joined in ascending rank order: as many as there are
\* nodes, none twice, and every sequence of the dictionary has that length.
C7_Aggregation ==
    \A r \in Ranks :
      Filled(r) =>
        /\ globalFields[r] = LocalsUpTo(Procs - 1)
        /\ Len(globalFields[r]) = GlobalCount(1)
        /\ \A i, j \in 1 .. Len(globalFields[r]) :
             i # j => globalFields[r][i] # globalFields[r][j]
        /\ \A f \in FieldKeys : Len(nlFieldDict[r][f]) = GlobalCount(1)

C7_Witness ==
    /\ Filled(1)
    /\ numInternalNodes(1, 0) = 1
    /\ numInternalNodes(1, 1) = 2
    /\ Len(globalFields[1]) = 3

\* The internal nodes of the node list spickle_node_list is called with.
Nodes == {Node(1, q, i) : q \in Ranks, i \in 0 .. (MaxNodes - 1)}

\* The entries at index i of dictionary d are the fields of node n, each under
\* its own key.
SameNode(d, i, n) ==
    /\ d.x[i] = xyz(FieldValue("x", n))
    /\ d.v[i] = xyz(FieldValue("v", n))
    /\ d.m[i] = FieldValue("m", n)
    /\ d.rho[i] = FieldValue("rho", n)
    /\ d.U[i] = FieldValue("U", n)
    /\ d.p[i] = FieldValue("p", n)
    /\ d.T[i] = FieldValue("T", n)
    /\ d.h[i] = xyz(eigenValues(FieldValue("H", n)))

\* C8: in the dictionary of spickle_node_list the entries at one index come
\* from one node, and each key holds the field it names.
C8_FieldsAligned ==
    \A r \in Ranks :
      Filled(r) =>
        \A i \in 1 .. Len(nlFieldDict[r].m) :
          \E n \in Nodes :
            /\ n[3] < numInternalNodes(1, n[2])
            /\ SameNode(nlFieldDict[r], i, n)

C8_Witness ==
    /\ Filled(0)
    /\ numInternalNodes(1, 0) = 2
    /\ numInternalNodes(1, 1) = 1
    /\ Len(nlFieldDict[0].m) = 3
    /\ SameNode(nlFieldDict[0], 3, Node(1, 1, 0))

\* C9: in spickle_node_list only rank 0 opens the destination, at most once,
\* and without a filename that is a string no rank opens or changes it.
C9_OneBlobOnRankZero ==
    args.func = "spickle_node_list" =>
      /\ \A r \in Ranks : r # 0 => opens[r] = 0 /\ fid[r].mode = "closed"
      /\ opens[0] <= 1
      /\ Len(blob) <= 1
      /\ args.filename # "str" => opens[0] = 0 /\ blob = args.old

C9_Witness ==
    /\ args.func = "spickle_node_list"
    /\ args.filename = "str"
    /\ AllDone
    /\ opens[0] = 1
    /\ Len(blob) = 1
    /\ blob[1].kind = "pickle"

\* C10: after pflatten_node_list_list with do_header the first column of every
\* row is the index of the node list the row's node belongs to, and the header
\* states the sum of the global counts of all node lists.
C10_IdentityAndTotal ==
    (args.func = "pflatten_node_list_list" /\ args.do_header /\ AllDone) =>
      /\ file[1].kind = "header"
      /\ file[1].count = TotalCount(Len(args.nls))
      /\ Len(file) = 1 + TotalCount(Len(args.nls))
      /\ \A i \in 2 .. Len(file) :
           /\ IsRow(file[i])
           /\ file[i].cols[1] = Format("2d", ListOf(file[i]) - 1)

C10_Witness ==
    /\ args.func = "pflatten_node_list_list"
    /\ args.do_header
    /\ AllDone
    /\ Len(args.nls) = 2
    /\ GlobalCount(1) = 1
    /\ GlobalCount(2) = 2
    /\ file[1].count = 3
    /\ file[4].cols[1] = Format("2d", 1)

\* Where a rank is while it runs pflatten_node_list.
InPnl == {"pnl_assert", "pnl_header", "pnl_allreduce", "pnl_open_w", "pnl_write_header",
          "pnl_close_w", "pnl_loop", "pnl_rows", "pnl_endif", "pnl_barrier"}

IsHeader(l) == l.kind = "header"

\* The rows of the node lists 1 .. c, list after list, list c with identity c - 1.
RECURSIVE RowsOfLists(_)
RowsOfLists(c) ==
    IF c = 0 THEN <<>> ELSE RowsOfLists(c - 1) \o RowsUpTo(c - 1, c, Procs - 1)

\* C11: pflatten_node_list_list takes the node lists in the order of nls: the
\* list at index k is written with identity k by a call without header, the
\* file never holds more than the one shared header, and all rows of one list
\* precede all rows of the next.
C11_ListOrderOneHeader ==
    args.func = "pflatten_node_list_list" =>
      /\ \A r \in Ranks : pc[r] \in InPnl =>
           /\ ~frame[r].do_header
           /\ frame[r].nl = k[r] + 1
      /\ \A r \in Ranks :
           Len(SelectSeq(calls[r], IsAllreduce)) <= IF args.do_header THEN Len(args.nls) ELSE 0
      /\ Len(SelectSeq(file, IsHeader)) <= 1
      /\ \A i, j \in 1 .. Len(file) :
           (i < j /\ IsRow(file[i]) /\ IsRow(file[j])) => ListOf(file[i]) <= ListOf(file[j])
      /\ \A i \in 1 .. Len(file) :
           IsRow(file[i]) => file[i].cols[1] = Format("2d", ListOf(file[i]) - 1)
      /\ AllDone => Rows(file) = RowsOfLists(Len(args.nls))

C11_Witness ==
    /\ args.func = "pflatten_node_list_list"
    /\ args.do_header
    /\ AllDone
    /\ Len(args.nls) = 2
    /\ numInternalNodes(1, 1) = 2
    /\ numInternalNodes(2, 0) = 1
    /\ Len(file) = 4
    /\ RankOf(file[3]) = 1
    /\ RankOf(file[4]) = 0

\* C12 as claimed: no two different node lists have rows with the same
\* identity in the first column of one file.
C12_UniqueIdentity ==
    \A i, j \in 1 .. Len(file) :
      (IsRow(file[i]) /\ IsRow(file[j]) /\ ListOf(file[i]) # ListOf(file[j]))
        => file[i].cols[1] # file[j].cols[1]

\* C12: the rows one pflatten_node_list_list call writes carry the position of
\* their node list in nls, so different lists have different identities; the
\* rows pflatten_node_list writes carry the nl_id of the call, whatever the
\* file already holds.
C12_IdentityWritten ==
    /\ args.func = "pflatten_node_list_list" =>
         /\ \A i \in 1 .. Len(file) :
              IsRow(file[i]) => file[i].cols[1] = Format("2d", ListOf(file[i]) - 1)
         /\ C12_UniqueIdentity
    /\ args.func = "pflatten_node_list" =>
         \A i \in 1 .. Len(file) :
           (IsRow(file[i]) /\ ListOf(file[i]) = 1)
             => file[i].cols[1] = Format("2d", args.nl_id)

C12_Witness ==
    /\ args.func = "pflatten_node_list"
    /\ ~args.do_header
    /\ args.old = EarlierFile
    /\ args.nl_id = 0
    /\ AllDone
    /\ Len(file) = 4
    /\ ListOf(file[2]) = 0
    /\ ListOf(file[3]) = 1
    /\ file[2].cols[1] = file[3].cols[1]

\* The sequences a and b hold the same lines.
SameLines(a, b) ==
    /\ Len(a) = Len(b)
    /\ \A i \in 1 .. Len(a) : a[i].kind = b[i].kind /\ a[i] = b[i]

\* C16: pflatten_node_list without header keeps every line the file held, in
\* place, and puts nothing but the rows of the call after them.
C16_AppendKeepsContent ==
    (args.func = "pflatten_node_list" /\ ~args.do_header) =>
      /\ Len(file) >= Len(args.old)
      /\ SameLines(SubSeq(file, 1, Len(args.old)), args.old)
      /\ \A i \in (Len(args.old) + 1) .. Len(file) : IsRow(file[i]) /\ ListOf(file[i]) = 1
      /\ AllDone => SameLines(file, args.old \o RowsUpTo(args.nl_id, 1, Procs - 1))

C16_Witness ==
    /\ args.func = "pflatten_node_list"
    /\ ~args.do_header
    /\ args.old = EarlierFile
    /\ AllDone
    /\ numInternalNodes(1, 0) = 1
    /\ numInternalNodes(1, 1) = 2
    /\ Len(file) = 5
    /\ IsHeader(file[1])

\* Where a rank is before the assertions of the function called.
EntryPc == {"pnl_assert", "pnll_assert", "sp_assert"}

\* No rank has entered a collective operation or opened the destination, and
\* the destination holds what it held before the call.
NothingDone ==
    /\ \A r \in Ranks : calls[r] = <<>> /\ opens[r] = 0 /\ fid[r].mode = "closed"
    /\ SameLines(file, args.old)
    /\ SameLines(blob, args.old)

\* C13: when a value passed as a node list is not one, every rank leaves the
\* function with AssertionError, and no rank has entered a collective operation
\* or opened the destination.
C13_InvalidNodeList ==
    (\E c \in 1 .. Len(args.types) : args.types[c] # "FluidNodeList") =>
      /\ \A r \in Ranks : pc[r] \in EntryPc \cup {"AssertionError"}
      /\ NothingDone
      /\ \A r \in Ranks : returned[r] = <<>>

C13_Witness ==
    /\ args.func = "pflatten_node_list_list"
    /\ args.filename = "str"
    /\ Len(args.types) = 2
    /\ args.types[1] = "FluidNodeList"
    /\ args.types[2] = "int"
    /\ \A r \in Ranks : pc[r] = "AssertionError"

\* C14 as claimed: with a filename that is not a string no rank returns
\* normally, whatever the function.
C14_WrongFilenameFails ==
    args.filename = "int" => \A r \in Ranks : pc[r] # "done"

\* C14: with a filename that is not a string the pflatten functions leave with
\* AssertionError on every rank before any collective operation or open;
\* spickle_node_list raises nothing, opens nothing and returns the dictionary
\* on every rank.
C14_WrongFilename ==
    (args.filename = "int" /\ \A c \in 1 .. Len(args.types) : args.types[c] = "FluidNodeList") =>
      /\ args.func \in pflatten =>
           /\ \A r \in Ranks : pc[r] \in EntryPc \cup {"AssertionError"}
           /\ NothingDone
      /\ args.func = "spickle_node_list" =>
           /\ \A r \in Ranks : pc[r] # "AssertionError" /\ opens[r] = 0
           /\ SameLines(blob, args.old)
           /\ \A r \in Ranks :
                pc[r] = "done" =>
                  /\ Len(returned[r]) = 1
                  /\ Len(returned[r][1].m) = GlobalCount(1)

C14_Witness ==
    /\ args.func = "spickle_node_list"
    /\ args.filename = "int"
    /\ AllDone
    /\ Len(returned[0]) = 1
    /\ Len(returned[0][1].m) = 2
    /\ opens[0] = 0

\* C15: every dictionary a rank gets from spickle_node_list, called again with
\* the node list unchanged, is equal to the first one it got, and holds the
\* fields of the global nodes once.
C15_SameDictAgain ==
    args.func = "spickle_node_list" =>
      \A r \in Ranks : \A i \in 1 .. Len(returned[r]) :
        /\ returned[r][i] = returned[r][1]
        /\ \A f \in FieldKeys : Len(returned[r][i][f]) = GlobalCount(1)

C15_Witness ==
    /\ args.func = "spickle_node_list"
    /\ AllDone
    /\ numInternalNodes(1, 0) = 1
    /\ numInternalNodes(1, 1) = 1
    /\ \A r \in Ranks : Len(returned[r]) = 2 /\ Len(returned[r][2].m) = 2

\* The barriers rank r has entered.
Barriers(r) == SelectSeq(calls[r], IsBarrier)

\* Rank r has written a row of the node list of this call.
HasWritten(r) ==
    \/ \E i \in 1 .. Len(fid[r].buf) : IsRow(fid[r].buf[i])
    \/ \E i \in 1 .. Len(file) :
         IsRow(file[i]) /\ ListOf(file[i]) = 1 /\ RankOf(file[i]) = r

\* C17 as claimed: in pflatten_node_list with header a rank has been through a
\* barrier before it writes a row.
C17_BarrierBeforeRows ==
    (args.func = "pflatten_node_list" /\ args.do_header) =>
      \A r \in Ranks : HasWritten(r) => Len(Barriers(r)) >= 1

\* C17: in pflatten_node_list with header rank 0 writes its rows after it has
\* closed the header's file, without a barrier in between; a rank r other than
\* 0 writes its rows after r barriers, which rank 0 has entered after the
\* header, so that the header is in the file.
C17_HeaderThenRows ==
    (args.func = "pflatten_node_list" /\ args.do_header) =>
      \A r \in Ranks :
        pc[r] = "pnl_rows" =>
          /\ Len(Barriers(r)) = r
          /\ Len(Barriers(0)) >= r
          /\ opens[0] >= 1
          /\ r # 0 => /\ Len(file) >= 1
                      /\ IsHeader(file[1])
                      /\ \A i \in 1 .. Len(fid[0].buf) : ~IsHeader(fid[0].buf[i])

C17_Witness ==
    /\ args.func = "pflatten_node_list"
    /\ args.do_header
    /\ numInternalNodes(1, 0) = 1
    /\ pc[1] = "pnl_rows"
    /\ nk[1] = 1
    /\ HasWritten(0)
    /\ Len(Barriers(1)) = 1

\* The column a formatted value belongs to.
ColumnName(c) ==
    CASE c[1] = "2d" -> "id"
      [] c[1] # "2d" /\ c[2][1] \in {"m", "rho", "p", "T", "U"} -> c[2][1]
      [] c[1] # "2d" /\ c[2][1] = "minElement" -> "hmin"
      [] c[1] # "2d" /\ c[2][1] = "maxElement" -> "hmax"
      [] c[1] # "2d" /\ c[2][1] \in {"x", "y", "z"} /\ c[2][2][1] = "x" -> c[2][1]
      [] c[1] # "2d" /\ c[2][1] = "x" /\ c[2][2][1] = "v" -> "vx"
      [] c[1] # "2d" /\ c[2][1] = "y" /\ c[2][2][1] = "v" -> "vy"
      [] c[1] # "2d" /\ c[2][1] = "z" /\ c[2][2][1] = "v" -> "vz"
      [] OTHER -> "?"

\* C18: every row the pflatten functions write has the 14 columns the header
\* names, in the header's order (p, T, U after rho), the first one the nl_id
\* of the call in pflatten_node_list.
C18_ColumnOrder ==
    args.func \in pflatten =>
      \A i \in 1 .. Len(file) :
        /\ IsHeader(file[i]) =>
             file[i].cols = <<"id", "x", "y", "z", "vx", "vy", "vz", "m", "rho",
                              "p", "T", "U", "hmin", "hmax">>
        /\ IsRow(file[i]) =>
             /\ Len(file[i].cols) = Len(Columns)
             /\ \A j \in 1 .. Len(Columns) : ColumnName(file[i].cols[j]) = Columns[j]
             /\ \A j \in 2 .. Len(Columns) : file[i].cols[j][1] = "+12.5e"
             /\ (args.func = "pflatten_node_list" /\ ListOf(file[i]) = 1)
                  => file[i].cols[1] = <<"2d", args.nl_id>>

C18_Witness ==
    /\ args.func = "pflatten_node_list"
    /\ args.do_header
    /\ args.nl_id = 2
    /\ AllDone
    /\ Len(file) = 3
    /\ IsHeader(file[1])
    /\ ColumnName(file[3].cols[10]) = "p"
    /\ ColumnName(file[3].cols[12]) = "U"

\* C19: after spickle_node_list with a filename the file holds one pickle, that
\* of the dictionary rank 0 returns, and nothing of what it held before.
C19_BlobIsReturnedDict ==
    (args.func = "spickle_node_list" /\ args.filename = "str" /\ pc[0] = "done") =>
      /\ Len(blob) = 1
      /\ blob[1].kind = "pickle"
      /\ Len(returned[0]) >= 1
      /\ blob[1].dict = returned[0][Len(returned[0])]

C19_Witness ==
    /\ args.func = "spickle_node_list"
    /\ args.filename = "str"
    /\ args.old # <<>>
    /\ AllDone
    /\ Len(blob) = 1
    /\ Len(returned[0]) = 1
    /\ Len(returned[0][1].m) = 3
    /\ blob[1].dict.m = returned[0][1].m

\* C20: pflatten_node_list(nl, f) and pflatten_node_list_list([nl], f) leave
\* the same file: the header with the global node count, then the rows of nl
\* with identity 0.
C20_SameFile ==
    (/\ AllDone
     /\ args.do_header
     /\ \/ args.func = "pflatten_node_list" /\ args.nl_id = 0
        \/ args.func = "pflatten_node_list_list" /\ Len(args.nls) = 1)
      => SameLines(file, <<header_template(GlobalCount(1))>> \o RowsUpTo(0, 1, Procs - 1))

C20_Witness ==
    /\ args.func = "pflatten_node_list_list"
    /\ Len(args.nls) = 1
    /\ args.do_header
    /\ AllDone
    /\ numInternalNodes(1, 0) = 2
    /\ numInternalNodes(1, 1) = 1
    /\ Len(file) = 4

\* The arguments pass the assertions of the function called.
ValidCall ==
    /\ \A c \in 1 .. Len(args.types) : args.types[c] = "FluidNodeList"
    /\ args.func \in pflatten => args.filename = "str"

\* The kinds of the collective operations rank r has entered, in order.
Kinds(r) == [i \in 1 .. Len(calls[r]) |-> calls[r][i].op]

\* The collective operations of one call: how many allreduce, how many barrier.
ExpectedAllreduces ==
    CASE args.func = "spickle_node_list" -> 2
      [] args.func = "pflatten_node_list" -> IF args.do_header THEN 1 ELSE 0
      [] OTHER -> IF args.do_header THEN Len(args.nls) ELSE 0

ExpectedBarriers ==
    CASE args.func = "spickle_node_list" -> 0
      [] args.func = "pflatten_node_list" -> Procs
      [] OTHER -> Procs * Len(args.nls)

\* In every state the ranks have entered the same collective operations as far
\* as they have come; a rank that has returned has entered those of the call.
SameCollectives ==
    /\ \A r, q \in Ranks :
         \A i \in 1 .. Len(calls[r]) : i <= Len(calls[q]) => calls[r][i].op = calls[q][i].op
    /\ \A r \in Ranks :
         pc[r] = "done" =>
           /\ Len(SelectSeq(calls[r], IsAllreduce)) = ExpectedAllreduces
           /\ Len(Barriers(r)) = ExpectedBarriers

\* C21: when the arguments are valid all ranks enter the same collective
\* operations in the same order (the allreduces of the call, and in
\* pflatten_node_list one barrier per rank of the group), whatever their
\* local node counts, and every rank returns.
C21_AllRanksReturn ==
    /\ [](ValidCall => SameCollectives)
    /\ (ValidCall => <>AllDone)

C21_Witness ==
    /\ args.func = "pflatten_node_list"
    /\ args.do_header
    /\ numInternalNodes(1, 0) = 0
    /\ numInternalNodes(1, 1) = 3
    /\ AllDone
    /\ Kinds(0) = <<"allreduce", "barrier", "barrier">>
    /\ Kinds(1) = Kinds(0)

\* The lines of s that are rows of node n.
RowsOfNode(s, n) == {j \in 1 .. Len(s) : IsRow(s[j]) /\ NodeOf(s[j]) = n}

\* C22: in pflatten_node_list the only value a rank passes to a collective
\* operation is its node count; every row in the buffer of a rank's file
\* object is the row of one of this rank's own internal nodes; no node has two
\* rows in the file, and once all ranks have returned every internal node of
\* every rank has exactly one.
C22_OwnRowsOnly ==
    (args.func = "pflatten_node_list" /\ ValidCall) =>
      /\ \A r \in Ranks : \A i \in 1 .. Len(calls[r]) :
           /\ IsAllreduce(calls[r][i]) => calls[r][i].val = numInternalNodes(1, r)
           /\ IsBarrier(calls[r][i]) => calls[r][i].val = 0
      /\ \A r \in Ranks : \A i \in 1 .. Len(fid[r].buf) :
           IsRow(fid[r].buf[i]) =>
             /\ ListOf(fid[r].buf[i]) = 1
             /\ RankOf(fid[r].buf[i]) = r
             /\ IndexOf(fid[r].buf[i]) < numInternalNodes(1, r)
      /\ \A q \in Ranks : \A i \in 0 .. (MaxNodes - 1) :
           /\ Cardinality(RowsOfNode(Written, Node(1, q, i)))
                + Cardinality(RowsOfNode(fid[q].buf, Node(1, q, i))) <= 1
           /\ AllDone =>
                Cardinality(RowsOfNode(Written, Node(1, q, i)))
                  = IF i < numInternalNodes(1, q) THEN 1 ELSE 0

C22_Witness ==
    /\ args.func = "pflatten_node_list"
    /\ ~args.do_header
    /\ args.filename = "str"
    /\ numInternalNodes(1, 0) = 1
    /\ numInternalNodes(1, 1) = 2
    /\ AllDone
    /\ Cardinality(RowsOfNode(Written, Node(1, 1, 1))) = 1
    /\ Len(Rows(Written)) = 3

\* C23: every rank that has returned from spickle_node_list has got a
\* dictionary with the fields of all global nodes, equal to the one every
\* other rank has got and to the one rank 0 has pickled.
C23_SameDictEveryRank ==
    (args.func = "spickle_node_list" /\ ValidCall) =>
      \A r \in Ranks :
        pc[r] = "done" =>
          /\ Len(returned[r]) = 1
          /\ \A f \in FieldKeys : Len(returned[r][1][f]) = GlobalCount(1)
          /\ \A q \in Ranks : pc[q] = "done" => returned[q][1] = returned[r][1]
          /\ (args.filename = "str" /\ pc[0] = "done" /\ Len(blob) >= 1
                /\ blob[1].kind = "pickle")
               => blob[1].dict = returned[r][1]

C23_Witness ==
    /\ args.func = "spickle_node_list"
    /\ args.filename = "str"
    /\ numInternalNodes(1, 0) = 2
    /\ numInternalNodes(1, 1) = 1
    /\ AllDone
    /\ Len(returned[1]) = 1
    /\ Len(returned[1][1].x) = 3
    /\ returned[1][1] = returned[0][1]
    /\ blob[1].dict = returned[1][1]

====
